---- MODULE Spec2Model ----
(***************************************************************************)
(* Model of cryptoscrap/scraper.py: Scraper.scrap (the orchestration       *)
(* pass), Scraper.scrap_coin_hour / scrap_coin_minute (backward page walk, *)
(* zero cleaning, merge with the existing csv, save) and                   *)
(* Scraper.get_active_coin_list.                                           *)
(*                                                                         *)
(* Time is counted in buckets (one candle per bucket).  A remote point is  *)
(* [time, high, low]; the other csv columns play no part in control flow.  *)
(* A DataFrame is a sequence of rows that carry their index label (idx),   *)
(* because DataFrame.drop(df.index[:n]) and iterrows() work on labels.     *)
(***************************************************************************)
EXTENDS Integers, Sequences, FiniteSets, TLC

\* ---------------------------------------------------------------- bounds
MaxTime == 4          \* the clock runs over buckets 1..MaxTime
BucketsPerDay == 3    \* buckets in one calendar day of the time string
Retention == 2        \* minute data older than now - Retention is refused
MaxFetch == 5         \* page requests followed within one walk
MaxIgnore == 3        \* lines of the ignore list up to which no-data errors are followed
HISTO_LIMIT == 1      \* scraper.py:15 (2000), scaled: a page holds at most HISTO_LIMIT + 1 points

\* ------------------------------------------------------ program constants
\* A csv path: no file, or a file holding rows (a file of zero bytes holds none).
NoFile == [exists |-> FALSE, rows |-> <<>>]
File(rows) == [exists |-> TRUE, rows |-> rows]
\* df_existing: None, or the rows read_csv returned.
NoDf == NoFile
TO_CURR == "BTC"
CC_LIST == {"IOT", "ETH", "BTC"}
COINMARKETCAP_TO_CRYPTOCOMPARE ==
    [c \in {"MIOTA", "NANO", "ETHOS"} |->
        IF c = "MIOTA" THEN "IOT" ELSE IF c = "NANO" THEN "XRB" ELSE "BQX"]
Coins == {"IOT", "ETH"}
TZOffsets == {-1, 0, 1}
Kinds == {"none", "zero", "data"}

VARIABLES
    now,        \* int(time.time()), in buckets
    online,     \* is_connected(REMOTE_SERVER)
    rate,       \* "hour" or "minute": the rate argument of scrap
    update,     \* the update argument of scrap
    tz,         \* local UTC offset of the machine, in buckets
    cmc,        \* symbols of the CoinMarketCap ticker, by market cap
    hist,       \* remote candle history: hist[c][t] is the kind of bucket t
    files,      \* csv file of each pair: NoFile or File(rows)
    ignore,     \* lines of coin_ignore_list.csv
    ppc,        \* position inside Scraper.scrap
    coinlist,   \* the resolved coin list of the pass
    ci,         \* index of the coin of the current loop iteration
    cur,        \* c: the coin of the current (or latest) loop iteration
    success,    \* the success list of the pass
    failed,     \* coins reported by log.error in the pass
    attempted,  \* coins whose scrap_coin_* was called in the pass
    results,    \* how each of these calls ended
    cancelled,  \* the pass left its loop through KeyboardInterrupt
    spc,        \* position inside scrap_coin_*
    dfExisting, \* df_existing: NoDf or File(rows read from the csv)
    tsEnd,      \* ts_end
    df,         \* df
    nfetch,     \* page requests made by the current walk
    lastTs,     \* to_ts of the latest page request of the walk
    stopBy,     \* how the walk ended: "cond", "window" or "none"
    walked,     \* df as the walk left it, before formatting
    before,     \* the pair's file when scrap_coin_* was entered
    saved,      \* what to_csv wrote for each coin saved in the pass
    outcome     \* how the latest scrap_coin_* call ended

vars == <<now, online, rate, update, tz, cmc, hist, files, ignore, ppc, coinlist,
          ci, cur, success, failed, attempted, results, cancelled, spc, dfExisting,
          tsEnd, df, nfetch, lastTs, stopBy, walked, before, saved, outcome>>

argVars == <<rate, update, tz, cmc, hist>>
envVars == <<now, online, rate, update, tz, cmc, hist>>
listVars == <<success, failed, results, cancelled, saved>>
walkVars == <<dfExisting, tsEnd, df, nfetch, lastTs, stopBy, walked>>

\* ------------------------------------------------------------ sequences
Min2(a, b) == IF a < b THEN a ELSE b

DropFirst(s, n) ==
    IF n <= 0 THEN s
    ELSE IF n >= Len(s) THEN <<>>
    ELSE SubSeq(s, n + 1, Len(s))

Last(s) == s[Len(s)]

IsPrefix(s, t) == Len(s) <= Len(t) /\ SubSeq(t, 1, Len(s)) = s

\* ------------------------------------------------------ time conversion
\* pd.to_datetime(unit='s') rendered by to_csv / str(): the UTC calendar time.
DateStr(ts) == <<ts \div BucketsPerDay, ts % BucketsPerDay>>

\* str_to_ts: strptime reads the string, time.mktime takes it as local time.
str_to_ts(s) == (s[1] * BucketsPerDay + s[2]) - tz

\* ------------------------------------------------------------ the remote
Point(c, t) == [time |-> t,
                high |-> IF hist[c][t] = "data" THEN 1 ELSE 0,
                low  |-> IF hist[c][t] = "data" THEN 1 ELSE 0]

RECURSIVE PointsUpTo(_, _)
PointsUpTo(c, t) ==
    IF t < 1 THEN <<>>
    ELSE IF hist[c][t] = "none" THEN PointsUpTo(c, t - 1)
    ELSE Append(PointsUpTo(c, t - 1), Point(c, t))

\* histo_hour / histo_minute (limit, to_ts): the newest limit + 1 points whose
\* time is <= to_ts, oldest first.
histo(c, limit, to_ts) ==
    LET all == PointsUpTo(c, Min2(to_ts, MaxTime))
    IN  DropFirst(all, Len(all) - (limit + 1))

\* The minute endpoint refuses requests older than its retention window.
WindowTooOld(to_ts) == rate = "minute" /\ to_ts < now - Retention

\* ---------------------------------------------------------- DataFrames
\* pd.DataFrame(data, columns=CSV_HEADER) and concat(ignore_index=True):
\* labels 0..n-1.
DataFrame(data) == [i \in 1..Len(data) |->
                      [idx |-> i - 1, time |-> data[i].time,
                       high |-> data[i].high, low |-> data[i].low]]

Unlabel(d) == [i \in 1..Len(d) |-> [time |-> d[i].time, high |-> d[i].high, low |-> d[i].low]]

\* pd.concat([df2, df], ignore_index=True)
Concat(df2, df1) == DataFrame(Unlabel(df2) \o Unlabel(df1))

\* Faulty variant: the walk does not stop at ts_end.
WalkCond_IgnoresTail(d, ts_end) == d[1].high > 0

\* while df.loc[0, "high"] > 0 and df.loc[0, "time"] > ts_end
WalkCond(d, ts_end) == d[1].high > 0 /\ d[1].time > ts_end

\* df.drop(df.index[:n]): drops the rows carrying the first n labels.
Drop(d, n) == DropFirst(d, n)

\* "Format data: clean zeros": the first row that is not high == low == 0
\* drops the rows before its label; no such row, nothing is dropped.
CleanZeros(d) ==
    LET real == {i \in 1..Len(d) : ~(d[i].high = d[i].low /\ d[i].low = 0)}
    IN  IF real = {} THEN d
        ELSE LET i == CHOOSE j \in real : \A k \in real : j <= k
             IN  Drop(d, d[i].idx)

\* df["time"] = pd.to_datetime(df["time"], unit='s')
ToDatetime(d) == [i \in 1..Len(d) |-> [d[i] EXCEPT !.time = DateStr(d[i].time)]]

\* Faulty variant: the matching row is kept (drop up to idx, not idx + 1).
MergeExisting_KeepsMatch(existing, d) ==
    LET hit == {i \in 1..Len(d) : d[i].time = Last(existing).time}
    IN  IF hit = {} THEN Unlabel(d)
        ELSE LET i == CHOOSE j \in hit : \A k \in hit : j <= k
             IN  existing \o Unlabel(Drop(d, d[i].idx))

\* "Merge with existing csv data": the first row whose time string equals the
\* last time string of df_existing drops the rows up to its label, and the rest
\* goes after df_existing; no such row, df stays as it is.
MergeExisting(existing, d) ==
    LET hit == {i \in 1..Len(d) : d[i].time = Last(existing).time}
    IN  IF hit = {} THEN Unlabel(d)
        ELSE LET i == CHOOSE j \in hit : \A k \in hit : j <= k
             IN  existing \o Unlabel(Drop(d, d[i].idx + 1))

\* Faulty variant: the existing rows are not put back before the new ones.
Merged_Overwrites(existing, d) == Unlabel(ToDatetime(CleanZeros(d)))

\* The rows scrap_coin_* hands to to_csv.
Merged(existing, d) ==
    LET f == ToDatetime(CleanZeros(d))
    IN  IF existing.exists THEN MergeExisting(existing.rows, f) ELSE Unlabel(f)

\* ------------------------------------------------- get_active_coin_list
RECURSIVE SelectNotIn(_, _)
SelectNotIn(s, set) ==
    IF s = <<>> THEN <<>>
    ELSE IF s[1] \in set THEN SelectNotIn(Tail(s), set)
    ELSE <<s[1]>> \o SelectNotIn(Tail(s), set)

RECURSIVE SelectIn(_, _)
SelectIn(s, set) ==
    IF s = <<>> THEN <<>>
    ELSE IF s[1] \in set THEN <<s[1]>> \o SelectIn(Tail(s), set)
    ELSE SelectIn(Tail(s), set)

Range(s) == {s[i] : i \in 1..Len(s)}

\* The ignore list filters the CoinMarketCap symbols, then the renaming table
\* is applied, then the list is intersected with the CryptoCompare coin list.
get_active_coin_list ==
    LET active  == SelectNotIn(cmc, Range(ignore))
        renamed == [i \in 1..Len(active) |->
                      IF active[i] \in DOMAIN COINMARKETCAP_TO_CRYPTOCOMPARE
                      THEN COINMARKETCAP_TO_CRYPTOCOMPARE[active[i]]
                      ELSE active[i]]
    IN  SelectIn(renamed, CC_LIST)

\* ------------------------------------------------------ initial states
Histories == [1..MaxTime -> Kinds]
NoHistory == [t \in 1..MaxTime |-> "none"]

InitCommon ==
    /\ now = 1
    /\ online \in BOOLEAN
    /\ rate \in {"hour", "minute"}
    /\ files = [c \in Coins |-> NoFile]
    /\ ignore = <<"DOGE">>
    /\ ppc = "idle"
    /\ coinlist = <<>>
    /\ ci = 0
    /\ cur = "ETH"
    /\ success = <<>>
    /\ failed = <<>>
    /\ attempted = <<>>
    /\ results = <<>>
    /\ cancelled = FALSE
    /\ spc = "none"
    /\ dfExisting = NoDf
    /\ tsEnd = 0
    /\ df = <<>>
    /\ nfetch = 0
    /\ lastTs = 0
    /\ stopBy = "none"
    /\ walked = <<>>
    /\ before = NoFile
    /\ saved = [c \in Coins |-> NoFile]
    /\ outcome = "none"

\* One pair, every remote history, every time-zone offset.
Init ==
    /\ InitCommon
    /\ update \in BOOLEAN
    /\ tz \in TZOffsets
    /\ cmc = <<"ETH", "BTC">>
    /\ hist \in {h \in [Coins -> Histories] : h["IOT"] = NoHistory}

\* --------------------------------------------------------- environment
\* The clock advances between passes (app.py sleeps there).
Tick ==
    /\ ppc = "idle"
    /\ now < MaxTime
    /\ now' = now + 1
    /\ UNCHANGED <<online, argVars, files, ignore, ppc, coinlist, ci, cur, attempted,
                   listVars, spc, walkVars, before, outcome>>

\* Connectivity changes: before the check of wait_for_internet_connection, or
\* later in the scrape, before a page request.
NetFlip ==
    /\ ppc = "resolve" \/ spc \in {"wait", "first", "loop"}
    /\ online' = ~online
    /\ UNCHANGED <<now, argVars, files, ignore, ppc, coinlist, ci, cur, attempted,
                   listVars, spc, walkVars, before, outcome>>

\* ------------------------------------------------------- Scraper.scrap
\* scrap_coin_func[rate](c, to_curr, update=update): the callee starts with
\* fresh locals, at its wait_for_internet_connection.
CallCoin(c) ==
    /\ cur' = c
    /\ attempted' = Append(attempted, c)
    /\ spc' = "wait"
    /\ before' = files[c]
    /\ outcome' = "none"
    /\ dfExisting' = NoDf
    /\ tsEnd' = 0
    /\ df' = <<>>
    /\ nfetch' = 0
    /\ lastTs' = 0
    /\ stopBy' = "none"
    /\ walked' = <<>>

\* The locals of scrap_coin_* are gone once it has returned or raised.
CoinGone ==
    /\ spc' = "none"
    /\ cur' = "ETH"
    /\ before' = NoFile
    /\ outcome' = "none"
    /\ dfExisting' = NoDf
    /\ tsEnd' = 0
    /\ df' = <<>>
    /\ nfetch' = 0
    /\ lastTs' = 0
    /\ stopBy' = "none"
    /\ walked' = <<>>

\* app.py calls s.scrap(rate, to_curr).
StartPass ==
    /\ ppc = "idle"
    /\ ppc' = "resolve"
    /\ UNCHANGED <<envVars, files, ignore, coinlist, ci, cur, attempted, listVars, spc,
                   walkVars, before, outcome>>

\* scrap returns after its closing log.info; its locals are gone.
EndPass ==
    /\ ppc = "done"
    /\ ppc' = "idle"
    /\ coinlist' = <<>>
    /\ ci' = 0
    /\ success' = <<>>
    /\ failed' = <<>>
    /\ attempted' = <<>>
    /\ results' = <<>>
    /\ cancelled' = FALSE
    /\ saved' = [c \in Coins |-> NoFile]
    /\ UNCHANGED <<envVars, files, ignore, cur, spc, walkVars, before, outcome>>

\* get_active_coin_list waits while the host is unreachable.
ResolveOffline ==
    /\ ppc = "resolve"
    /\ ~online
    /\ UNCHANGED vars

\* coinlist = [coin for coin in get_active_coin_list() if coin != to_curr],
\* then the first iteration of the for loop calls scrap_coin_*.
Resolve ==
    /\ ppc = "resolve"
    /\ online
    /\ coinlist' = SelectNotIn(get_active_coin_list, {TO_CURR})
    /\ IF coinlist' = <<>>
       THEN /\ ppc' = "done"
            /\ UNCHANGED <<ci, cur, attempted, spc, walkVars, before, outcome>>
       ELSE /\ ppc' = "loop"
            /\ ci' = 1
            /\ CallCoin(coinlist'[1])
    /\ UNCHANGED <<envVars, files, ignore, listVars>>

\* The next iteration of "for c in coinlist", or the end of the loop.
NextCoin ==
    IF ci < Len(coinlist)
    THEN /\ ci' = ci + 1
         /\ CallCoin(coinlist[ci + 1])
         /\ UNCHANGED ppc
    ELSE /\ ppc' = "done"
         /\ CoinGone
         /\ UNCHANGED <<ci, attempted>>

\* success.append(c)
OnSuccess ==
    /\ spc = "returned"
    /\ outcome = "ok"
    /\ success' = Append(success, cur)
    /\ results' = Append(results, outcome)
    /\ NextCoin
    /\ UNCHANGED <<envVars, files, ignore, coinlist, failed, cancelled, saved>>

\* except KeyboardInterrupt: break
OnKeyboardInterrupt ==
    /\ spc = "returned"
    /\ outcome = "Interrupt"
    /\ cancelled' = TRUE
    /\ results' = Append(results, outcome)
    /\ ppc' = "done"
    /\ CoinGone
    /\ UNCHANGED <<envVars, files, ignore, coinlist, ci, attempted, success, failed, saved>>

\* Faulty variant: the ignore file is opened with "w", not "a".
OnNoData_Rewrites ==
    /\ spc = "returned"
    /\ outcome = "NoData"
    /\ ignore' = <<cur>>
    /\ results' = Append(results, outcome)
    /\ NextCoin
    /\ UNCHANGED <<envVars, files, coinlist, success, failed, cancelled, saved>>

\* except Exception, the message matches CRYPTOCOMPARE_NO_DATA_ERROR:
\* the coin is appended to coin_ignore_list.csv.
OnNoData ==
    /\ spc = "returned"
    /\ outcome = "NoData"
    /\ ignore' = Append(ignore, cur)
    /\ results' = Append(results, outcome)
    /\ NextCoin
    /\ UNCHANGED <<envVars, files, coinlist, success, failed, cancelled, saved>>

\* Faulty variant: a failed coin ends the loop.
OnError_Aborts ==
    /\ spc = "returned"
    /\ outcome = "Error"
    /\ failed' = Append(failed, cur)
    /\ results' = Append(results, outcome)
    /\ ppc' = "done"
    /\ CoinGone
    /\ UNCHANGED <<envVars, files, ignore, coinlist, success, cancelled, saved,
                   ci, attempted>>

\* except Exception, any other message: log.error.
OnError ==
    /\ spc = "returned"
    /\ outcome = "Error"
    /\ failed' = Append(failed, cur)
    /\ results' = Append(results, outcome)
    /\ NextCoin
    /\ UNCHANGED <<envVars, files, ignore, coinlist, success, cancelled, saved>>

\* ------------------------------- scrap_coin_hour / scrap_coin_minute
coinFrame == <<envVars, ignore, ppc, coinlist, ci, cur, attempted, success, failed,
               results, cancelled, before>>

\* An exception leaves scrap_coin_* for the handlers of scrap.
Raise(kind) ==
    /\ spc' = "returned"
    /\ outcome' = kind

\* What one page request can come back with: the page, or an error; with the
\* host unreachable, the network error only.
Responses(to_ts) ==
    IF ~online THEN {"Error"}
    ELSE {"Error"} \cup (IF Len(ignore) < MaxIgnore THEN {"NoData"} ELSE {})
                   \cup (IF WindowTooOld(to_ts) THEN {"Window"} ELSE {"ok"})

\* wait_for_internet_connection: sleep and check again.
WaitOffline ==
    /\ spc = "wait"
    /\ ~online
    /\ UNCHANGED vars

WaitOnline ==
    /\ spc = "wait"
    /\ online
    /\ spc' = "load"
    /\ UNCHANGED <<coinFrame, files, saved, walkVars, outcome>>

\* "If csv already exist, load it and retrieve last timestamp".  read_csv
\* raises on a file of zero bytes.
LoadExisting ==
    /\ spc = "load"
    /\ IF update /\ files[cur].exists
       THEN IF files[cur].rows = <<>>
            THEN /\ Raise("Error")
                 /\ UNCHANGED <<dfExisting, tsEnd>>
            ELSE /\ dfExisting' = files[cur]
                 /\ tsEnd' = str_to_ts(Last(files[cur].rows).time)
                 /\ spc' = "first"
                 /\ UNCHANGED outcome
       ELSE /\ spc' = "first"
            /\ UNCHANGED <<dfExisting, tsEnd, outcome>>
    /\ UNCHANGED <<coinFrame, files, saved, df, nfetch, lastTs, stopBy, walked>>

\* "Retrieve first chunk of data": ts = int(time.time()); histo(to_ts=ts).
FirstFetch ==
    /\ spc = "first"
    /\ nfetch' = 1
    /\ lastTs' = now
    /\ \E r \in Responses(now) :
          IF r = "ok"
          THEN /\ df' = DataFrame(histo(cur, HISTO_LIMIT, now))
               /\ spc' = "loop"
               /\ UNCHANGED outcome
          ELSE /\ Raise(r)
               /\ UNCHANGED df
    /\ UNCHANGED <<coinFrame, files, saved, dfExisting, tsEnd, stopBy, walked>>

\* df.loc[0, "high"] on a frame without rows raises KeyError.
LoopKeyError ==
    /\ spc = "loop"
    /\ df = <<>>
    /\ Raise("Error")
    /\ UNCHANGED <<coinFrame, files, saved, walkVars>>

\* Faulty variant: every page fetched is saved to the csv at once.
LoopFetch_SavesEachPage ==
    /\ spc = "loop"
    /\ df # <<>>
    /\ WalkCond(df, tsEnd)
    /\ nfetch < MaxFetch
    /\ nfetch' = nfetch + 1
    /\ LET ts == df[1].time
       IN  /\ lastTs' = ts - 1
           /\ \E r \in Responses(ts - 1) :
                 IF r = "ok"
                 THEN /\ df' = Concat(DataFrame(histo(cur, HISTO_LIMIT, ts - 1)), df)
                      /\ files' = [files EXCEPT ![cur] = File(Unlabel(ToDatetime(df')))]
                      /\ UNCHANGED <<spc, stopBy, outcome>>
                 ELSE IF r = "Window" /\ rate = "minute"
                 THEN /\ spc' = "format"
                      /\ stopBy' = "window"
                      /\ UNCHANGED <<df, outcome, files>>
                 ELSE /\ Raise(IF r = "NoData" THEN "NoData" ELSE "Error")
                      /\ UNCHANGED <<df, stopBy, files>>
    /\ UNCHANGED <<coinFrame, saved, dfExisting, tsEnd, walked>>

\* Faulty variant: the retention error keeps the newest row only.
LoopFetch_WindowDropsPages ==
    /\ spc = "loop"
    /\ df # <<>>
    /\ WalkCond(df, tsEnd)
    /\ nfetch < MaxFetch
    /\ nfetch' = nfetch + 1
    /\ LET ts == df[1].time
       IN  /\ lastTs' = ts - 1
           /\ \E r \in Responses(ts - 1) :
                 IF r = "ok"
                 THEN /\ df' = Concat(DataFrame(histo(cur, HISTO_LIMIT, ts - 1)), df)
                      /\ UNCHANGED <<spc, stopBy, outcome>>
                 ELSE IF r = "Window" /\ rate = "minute"
                 THEN /\ spc' = "format"
                      /\ stopBy' = "window"
                      /\ df' = SubSeq(df, Len(df), Len(df))
                      /\ UNCHANGED outcome
                 ELSE /\ Raise(IF r = "NoData" THEN "NoData" ELSE "Error")
                      /\ UNCHANGED <<df, stopBy>>
    /\ UNCHANGED <<coinFrame, files, saved, dfExisting, tsEnd, walked>>

\* One iteration of the while loop: the page ending at ts - 1 is put before df.
\* scrap_coin_minute leaves the loop on the retention error; every other error
\* is raised.
LoopFetch ==
    /\ spc = "loop"
    /\ df # <<>>
    /\ WalkCond(df, tsEnd)
    /\ nfetch < MaxFetch
    /\ nfetch' = nfetch + 1
    /\ LET ts == df[1].time
       IN  /\ lastTs' = ts - 1
           /\ \E r \in Responses(ts - 1) :
                 IF r = "ok"
                 THEN /\ df' = Concat(DataFrame(histo(cur, HISTO_LIMIT, ts - 1)), df)
                      /\ UNCHANGED <<spc, stopBy, outcome>>
                 ELSE IF r = "Window" /\ rate = "minute"
                 THEN /\ spc' = "format"
                      /\ stopBy' = "window"
                      /\ UNCHANGED <<df, outcome>>
                 ELSE /\ Raise(IF r = "NoData" THEN "NoData" ELSE "Error")
                      /\ UNCHANGED <<df, stopBy>>
    /\ UNCHANGED <<coinFrame, files, saved, dfExisting, tsEnd, walked>>

\* The while condition is false.
LoopExit ==
    /\ spc = "loop"
    /\ df # <<>>
    /\ ~WalkCond(df, tsEnd)
    /\ spc' = "format"
    /\ stopBy' = "cond"
    /\ UNCHANGED <<coinFrame, files, saved, dfExisting, tsEnd, df, nfetch, lastTs, walked, outcome>>

\* "Format data" and "Merge with existing csv data".
FormatMerge ==
    /\ spc = "format"
    /\ walked' = df
    /\ df' = Merged(dfExisting, df)
    /\ spc' = "save"
    /\ UNCHANGED <<coinFrame, files, saved, dfExisting, tsEnd, nfetch, lastTs, stopBy, outcome>>

\* df.to_csv(csv_path): the file is opened for writing, which empties it ...
SaveOpen ==
    /\ spc = "save"
    /\ files' = [files EXCEPT ![cur] = File(<<>>)]
    /\ spc' = "write"
    /\ UNCHANGED <<coinFrame, walkVars, saved, outcome>>

\* ... and the rows are written; scrap_coin_* returns.
SaveWrite ==
    /\ spc = "write"
    /\ files' = [files EXCEPT ![cur] = File(df)]
    /\ spc' = "returned"
    /\ outcome' = "ok"
    /\ saved' = [saved EXCEPT ![cur] = File(df)]
    /\ UNCHANGED <<coinFrame, walkVars>>

\* KeyboardInterrupt is raised inside scrap_coin_*, wherever it stands.  When
\* to_csv has opened the file, the rows written so far stay in it.
Interrupt ==
    /\ ppc = "loop"
    /\ spc \notin {"none", "returned"}
    /\ Raise("Interrupt")
    /\ IF spc = "write"
       THEN \E n \in 0..(Len(df) - 1) :
               files' = [files EXCEPT ![cur] = File(SubSeq(df, 1, n))]
       ELSE UNCHANGED files
    /\ UNCHANGED <<coinFrame, walkVars, saved>>

Next ==
    \/ Tick
    \/ NetFlip
    \/ StartPass
    \/ EndPass
    \/ ResolveOffline
    \/ Resolve
    \/ OnSuccess
    \/ OnKeyboardInterrupt
    \/ OnNoData
    \/ OnError
    \/ WaitOffline
    \/ WaitOnline
    \/ LoadExisting
    \/ FirstFetch
    \/ LoopKeyError
    \/ LoopFetch
    \/ LoopExit
    \/ FormatMerge
    \/ SaveOpen
    \/ SaveWrite
    \/ Interrupt

Spec == Init /\ [][Next]_vars

\* The pass over several coins, one of them renamed by the table, each with a
\* history that differs in its first bucket (unlisted, padded or real).
PassHistories == {[t \in 1..MaxTime |-> IF t = 1 THEN k ELSE "data"] : k \in Kinds}

InitPass ==
    /\ InitCommon
    /\ update = TRUE
    /\ tz = 0
    /\ cmc = <<"MIOTA", "ETH", "BTC", "DOGE">>
    /\ hist \in [Coins -> PassHistories]

SpecPass == InitPass /\ [][Next]_vars

\* The loop of wait_for_internet_connection checks again after every sleep:
\* once the host stays reachable, the check succeeds and the caller goes on.
SpecLive == Init /\ [][Next]_vars /\ WF_vars(WaitOnline) /\ WF_vars(Resolve)

\* ------------------------------------------------------------- claims
\* The latest scrap_coin_* call has just ended, not by KeyboardInterrupt.
ScrapeEnded == spc = "returned" /\ outcome \in {"ok", "NoData", "Error"}

\* UTC epoch of a stored time string.
TimeOf(str) == str[1] * BucketsPerDay + str[2]

\* C1: with update=True, the file after a scrape (successful, failed or stopped
\* by the retention error) has the file before the scrape as a prefix.
C1_AppendOnly ==
    (ScrapeEnded /\ update /\ before.exists)
        => (files[cur].exists /\ IsPrefix(before.rows, files[cur].rows))

Increasing(rows) ==
    \A i \in 1..(Len(rows) - 1) : TimeOf(rows[i].time) < TimeOf(rows[i + 1].time)

\* The rows to_csv would write for the points of d, unmerged.
Formatted(d) == Unlabel(ToDatetime(d))

\* The existing file's last time string is the time of some walked point.
TailWalked ==
    /\ dfExisting.exists
    /\ \E i \in 1..Len(walked) : DateStr(walked[i].time) = Last(dfExisting.rows).time

\* The walked points strictly after the existing file's last point.
AfterTail ==
    LET T == TimeOf(Last(dfExisting.rows).time)
        Later(r) == r.time > T
    IN  Formatted(SelectSeq(walked, Later))

\* C2: when the existing file's last timestamp T is among the walked points,
\* the saved result is the existing rows followed by exactly the walked points
\* after T, whatever the number of no-data points trimmed before the splice.
C2_SpliceAfterTail ==
    (spc = "returned" /\ outcome = "ok" /\ TailWalked)
        => files[cur].rows = dfExisting.rows \o AfterTail

\* C3: every persisted series, and every merge result about to be saved, has
\* strictly increasing (hence unique) timestamps.
C3_StrictlyIncreasing ==
    /\ \A c \in Coins : Increasing(files[c].rows)
    /\ spc \in {"save", "write"} => Increasing(df)

\* C3 witness: a merge spliced new rows onto an existing series and saved it.
C3_Witness ==
    /\ spc = "returned"
    /\ outcome = "ok"
    /\ dfExisting.exists
    /\ Len(dfExisting.rows) >= 2
    /\ IsPrefix(dfExisting.rows, files[cur].rows)
    /\ Len(files[cur].rows) > Len(dfExisting.rows)
    /\ nfetch >= 2

\* Number of points the remote holds for the coin being scraped.
RemoteSize == Cardinality({t \in 1..MaxTime : hist[cur][t] # "none"})

FirstPage == DataFrame(histo(cur, HISTO_LIMIT, now))

\* C4: a walk makes at most one page request per remote point plus one, and
\* none after the first when the first page already meets the stop condition.
C4_BoundedWalk ==
    /\ nfetch <= RemoteSize + 1
    /\ (nfetch >= 1 /\ FirstPage # <<>> /\ ~WalkCond(FirstPage, tsEnd)) => nfetch = 1

\* The file read at the start of the scrape ends at the remote's newest point.
NothingNew ==
    /\ update
    /\ before.exists
    /\ before.rows # <<>>
    /\ PointsUpTo(cur, now) # <<>>
    /\ Last(before.rows).time = DateStr(Last(PointsUpTo(cur, now)).time)

LeadingZeros ==
    {i \in 1..Len(walked) : \A j \in 1..i : walked[j].high = 0 /\ walked[j].low = 0}

\* C6: no point of the leading no-data run of the walked series is in the
\* saved result, also when the walked series holds nothing else.
C6_LeadingZerosAbsent ==
    (spc = "returned" /\ outcome = "ok")
        => \A i \in LeadingZeros :
              \A k \in 1..Len(files[cur].rows) :
                 files[cur].rows[k].time # DateStr(walked[i].time)

\* C7: the pair's file stays as it was until to_csv, the last step, and a scrape
\* that a page request's error aborted (at any page) leaves it as it was.
C7_FailureLeavesFile ==
    /\ spc \in {"wait", "load", "first", "loop", "format", "save"} => files[cur] = before
    /\ (spc = "returned" /\ outcome \in {"NoData", "Error"}) => files[cur] = before

\* C7 witness: a request after the first page failed, with a file in place.
C7_Witness ==
    /\ spc = "returned"
    /\ outcome \in {"NoData", "Error"}
    /\ nfetch >= 2
    /\ before.exists
    /\ before.rows # <<>>

\* The coins of s (in order) whose call ended with outcome o.
RECURSIVE Ended(_, _, _)
Ended(coins, res, o) ==
    IF coins = <<>> \/ res = <<>> THEN <<>>
    ELSE (IF res[1] = o THEN <<coins[1]>> ELSE <<>>) \o Ended(Tail(coins), Tail(res), o)

\* C8: inside the loop the coins attempted so far are the first ci coins of the
\* list, each once and in order; a pass that ends without KeyboardInterrupt has
\* attempted the whole list whatever the outcomes, and its success list holds
\* exactly the coins whose scrape returned without error.
C8_FailureDoesNotAbort ==
    /\ ppc = "loop" => attempted = SubSeq(coinlist, 1, ci)
    /\ (ppc = "done" /\ ~cancelled)
          => /\ attempted = coinlist
             /\ Len(results) = Len(coinlist)
             /\ success = Ended(attempted, results, "ok")
             /\ failed = Ended(attempted, results, "Error")

\* C8 witness: the first coin failed, the second was scraped and succeeded.
C8_Witness ==
    /\ ppc = "done"
    /\ ~cancelled
    /\ Len(coinlist) = 2
    /\ results = <<"Error", "ok">>
    /\ success = <<coinlist[2]>>

\* C9: a coin whose scrape ended with the no-data error is on the ignore list,
\* is not reported as failed, and is not in the coin list the next resolution
\* returns, renamed coins included.
C9_NoDataExcluded ==
    \A i \in 1..Len(results) :
        results[i] = "NoData"
            => /\ attempted[i] \in Range(ignore)
               /\ attempted[i] \notin Range(failed)
               /\ attempted[i] \notin Range(get_active_coin_list)

\* C10: when KeyboardInterrupt ends the scrape of coin ci, no later coin has
\* been attempted, the coin's file is what it was before or the whole merge
\* result, and the coins saved earlier in the pass keep what was saved.
C10_CancelClean ==
    (spc = "returned" /\ outcome = "Interrupt")
        => /\ attempted = SubSeq(coinlist, 1, ci)
           /\ files[cur] = before \/ (walked # <<>> /\ files[cur] = File(df))
           /\ \A j \in 1..(ci - 1) :
                 results[j] = "ok" => files[coinlist[j]] = saved[coinlist[j]]

\* The trimmed, formatted walk: what the merge loop iterates over.
Trimmed == ToDatetime(CleanZeros(walked))

\* No row of the trimmed walk carries the existing file's last time string.
NoMatch ==
    /\ dfExisting.exists
    /\ \A i \in 1..Len(Trimmed) : Trimmed[i].time # Last(dfExisting.rows).time

\* C11: when no point of the trimmed walk has the existing series' last
\* timestamp, the saved result is the existing rows followed by the trimmed
\* walk: the existing points stay in the file.
C11_NoMatchConcatenates ==
    (spc = "returned" /\ outcome = "ok" /\ NoMatch)
        => files[cur].rows = dfExisting.rows \o Unlabel(Trimmed)

\* The earliest accumulated point is real and later than ts_end.
EarliestOpen(d) == d # <<>> /\ d[1].high > 0 /\ d[1].time > tsEnd

\* A page request after the first one of the walk.
FurtherPage == nfetch >= 1 /\ nfetch' = nfetch + 1

C12_Step ==
    /\ FurtherPage => (spc = "loop" /\ EarliestOpen(df))
    /\ (spc = "loop" /\ EarliestOpen(df) /\ online' = online /\ outcome' # "Interrupt")
          => FurtherPage
    /\ (spc = "loop" /\ stopBy' = "cond") => ~EarliestOpen(df)

C12_State ==
    /\ (spc \in {"first", "loop", "format", "save", "write"}
           /\ ~(update /\ before.exists)) => tsEnd = 0
    /\ (spc = "returned" /\ outcome = "ok" /\ stopBy = "cond")
          => (walked # <<>> /\ (walked[1].high <= 0 \/ walked[1].time <= tsEnd))

\* C12: a further page is requested exactly when the earliest accumulated
\* point has high > 0 and a time greater than ts_end; ts_end is 0 without a
\* local file or with update=False; a walk that ends normally, not by the
\* retention error, ends with an earliest point of high <= 0 or time <= ts_end.
C12_WalkCondition == []C12_State /\ [][C12_Step]_vars

\* C12 witness: a walk of several pages stopped on reaching the known tail.
C12_Witness ==
    /\ spc = "returned"
    /\ outcome = "ok"
    /\ stopBy = "cond"
    /\ dfExisting.exists
    /\ nfetch >= 2
    /\ walked[1].high > 0
    /\ walked[1].time <= tsEnd

\* df' is df with k rows put before it, all of them earlier than df's first.
Prepended(k) ==
    /\ Len(df') = Len(df) + k
    /\ Unlabel(SubSeq(df', k + 1, Len(df'))) = Unlabel(df)
    /\ \A i \in 1..k : df'[i].time < df[1].time

C13_Step ==
    FurtherPage
        => /\ lastTs' < lastTs
           /\ lastTs' = df[1].time - 1
           /\ spc' = "loop" => \E k \in 0..(HISTO_LIMIT + 1) : Prepended(k)

\* C13: within one walk every page request ends strictly before the previous
\* one, at the earliest accumulated time minus one, whatever page the remote
\* returned, and the rows of a new page go before the accumulated rows, all of
\* them earlier in time.
C13_CursorDecreases == [][C13_Step]_vars

C14_Step ==
    /\ (spc = "loop" /\ stopBy' = "window")
          => (rate = "minute" /\ FurtherPage /\ df' = df /\ spc' = "format"
                 /\ outcome' = "none")
    /\ (spc = "returned" /\ outcome = "ok" /\ stopBy = "window" /\ spc' # spc)
          => (success' = Append(success, cur) /\ failed' = failed /\ ignore' = ignore)
    /\ (FurtherPage /\ spc' = "returned")
          => (outcome' \in {"NoData", "Error"} /\ files' = files /\ success' = success)
    /\ (spc = "returned" /\ outcome \in {"NoData", "Error"}) => success' = success

C14_State ==
    /\ (stopBy = "window" /\ (spc \in {"save", "write"} \/ outcome = "ok"))
          => (walked # <<>> /\ df = Merged(dfExisting, walked))
    /\ (stopBy = "window" /\ spc = "returned")
          => \/ outcome = "ok" /\ files[cur] = File(df)
             \/ outcome = "Interrupt"

\* C14: in scrap_coin_minute the retention error of a page request inside the
\* loop ends the walk with every accumulated row kept; the rows are trimmed,
\* merged and written, and the coin is appended to success, not logged as
\* failed; any other error of that request leaves scrap_coin_minute as an
\* exception, with the file untouched and the coin not in success.
C14_RetentionStopsNormally == []C14_State /\ [][C14_Step]_vars

\* C14 witness: two pages were accumulated, the third request met the
\* retention error, and the scrape saved them and returned.
C14_Witness ==
    /\ rate = "minute"
    /\ spc = "returned"
    /\ outcome = "ok"
    /\ stopBy = "window"
    /\ nfetch >= 3
    /\ Len(walked) >= 3
    /\ files[cur].rows # <<>>

NoData(r) == r.high = 0 /\ r.low = 0

\* C15: no row of a written hour/minute file has high == 0 and low == 0,
\* whatever the remote history: pages of no-data points only, or no-data
\* points after the first real point.
C15_NoZeroPersisted ==
    \A c \in Coins :
        \A k \in 1..Len(files[c].rows) : ~NoData(files[c].rows[k])

\* scrap_coin_* is running.
Scraping == ppc = "loop" /\ spc \notin {"none", "returned"}

C16_Step ==
    /\ (spc = "wait" /\ ~online)
          => (nfetch' = nfetch /\ (spc' = "wait" \/ outcome' = "Interrupt"))
    /\ (spc = "wait" /\ spc' = "load") => online
    /\ (Scraping /\ ~online /\ nfetch' = nfetch + 1) => outcome' \notin {"Error", "NoData"}

\* C16: while the host is unreachable wait_for_internet_connection keeps the
\* scrape waiting and no page is requested; the scrape goes on only once the
\* host is reachable; a page request that meets the host unreachable, wherever
\* the scrape stands, does not end it with an error that scrap records for the
\* coin.
C16_ConnectivityNeverFails == [][C16_Step]_vars

\* The parts of C16 on the wait itself: under SpecLive, once the host stays
\* reachable every wait ends and the pass goes on.
C16_Resumes ==
    <>[]online => /\ [](spc = "wait" => <>(spc # "wait"))
                  /\ [](ppc = "resolve" => <>(ppc # "resolve"))

C17_Step ==
    /\ IsPrefix(ignore, ignore')
    /\ ignore' # ignore
          => /\ ignore' = Append(ignore, cur)
             /\ ppc = "loop"
             /\ spc = "returned"
             /\ outcome = "NoData"
             /\ cur = coinlist[ci]
             /\ results' = Append(results, "NoData")

\* C17: over any number of passes the ignore list keeps every entry it had,
\* in place; it changes only by one symbol appended, and only when the scrape
\* of that symbol, in the running pass, ended with the no-data error: not on
\* another error, a success or a KeyboardInterrupt.
C17_IgnoreOnlyGrows == [][C17_Step]_vars

\* C17 witness: a second pass appended to the list, after a pass in which a
\* coin had been appended; the other coin of this pass failed otherwise.
C17_Witness ==
    /\ ppc = "done"
    /\ ignore = <<"DOGE", "IOT", "IOT">>
    /\ results = <<"NoData", "Error">>
    /\ failed = <<"ETH">>

\* C18: ts_end, read back from the file, is the epoch time of the file's last
\* point, and writing a time as a string then reading it with str_to_ts gives
\* the time back, whatever the time-zone offset of the machine.
C18_TailRoundTrip ==
    dfExisting.exists
        => /\ tsEnd = TimeOf(Last(dfExisting.rows).time)
           /\ \A t \in 0..MaxTime : str_to_ts(DateStr(t)) = t

====
